---- MODULE Spec2Model ----
(***************************************************************************)
(* Selective-Repeat sender and receiver of src/Protocol_SR.py              *)
(* (rdt_Sender, rdt_Receiver), together with the unreliable channel that   *)
(* connects them and the applications at both ends.                        *)
(*                                                                         *)
(* Every handler of the source (rdt_send, the sender's rdt_rcv, the timer  *)
(* expiry with timeout_action, the receiver's rdt_rcv) is one atomic       *)
(* action: SimPy runs each callback to completion at one timestamp.        *)
(*                                                                         *)
(* Fields the source only writes and never reads are left out:             *)
(* rdt_Sender.timer_is_running, rdt_Receiver.expectedseqnum and            *)
(* rdt_Receiver.sndpkt (the ack it holds is in ev.acks when it is sent).   *)
(*                                                                         *)
(* hist, unacked and advanced are history variables: they record what the  *)
(* handlers did and no handler reads them.                                 *)
(***************************************************************************)
EXTENDS Integers, Sequences, FiniteSets, TLC

\* ------------------------------------------------------------------------
\* Bounds of the model
\* ------------------------------------------------------------------------
MaxN == 2         \* largest window size N that is configured
MaxSubmit == 5    \* payloads the sending application gets accepted
MaxRetrans == 1   \* timer expiries (cap on num_retransmissions)
MaxRcvd == 5      \* uncorrupted packets the receiver processes
MaxAdvance == 4   \* advanced stops counting when it reaches this

VARIABLES
    K,                      \* rdt_Sender.K and rdt_Receiver.K
    N,                      \* rdt_Sender.N
    receiving_window,       \* rdt_Receiver.receiving_window
    base,                   \* rdt_Sender.base
    nextseqnum,             \* rdt_Sender.nextseqnum
    sndpkt,                 \* rdt_Sender.sndpkt: seq_num -> payload
    acknowledged,           \* rdt_Sender.acknowledged: seq_num -> BOOLEAN
    timers,                 \* keys of rdt_Sender.timers (pending processes)
    total_packets_sent,     \* rdt_Sender.total_packets_sent
    num_retransmissions,    \* rdt_Sender.num_retransmissions
    r_base,                 \* rdt_Receiver.base
    received_packets,       \* rdt_Receiver.received_packets: seq_num -> payload
    r_total_packets_sent,   \* rdt_Receiver.total_packets_sent
    r_num_retransmissions,  \* rdt_Receiver.num_retransmissions
    dataCh,                 \* data packets in flight, sender -> receiver
    ackCh,                  \* seq_nums of acks in flight, receiver -> sender
    accepted,               \* payloads for which rdt_send returned True
    delivered,              \* payloads passed to receiving_app.deliver_data
    hist,                   \* per seq_num: fate of its most recent packet
    unacked,                \* seq_nums accepted and not acked since (history)
    advanced,               \* how often the sender's base moved (history)
    ev                      \* what the last handler did (its outputs)

sender == <<base, nextseqnum, sndpkt, acknowledged, timers,
            total_packets_sent, num_retransmissions>>
receiver == <<r_base, received_packets, r_total_packets_sent,
              r_num_retransmissions>>
config == <<K, N, receiving_window>>
history == <<hist, unacked, advanced>>
vars == <<config, sender, receiver, dataCh, ackCh, accepted, delivered,
          history, ev>>

\* ------------------------------------------------------------------------
\* Dictionaries and the window arithmetic
\* ------------------------------------------------------------------------
EmptyMap == [x \in {} |-> 0]

MapPut(f, k, v) == [x \in (DOMAIN f) \cup {k} |-> IF x = k THEN v ELSE f[x]]

MapDel(f, k) == [x \in (DOMAIN f) \ {k} |-> f[x]]

Min(a, b) == IF a <= b THEN a ELSE b

\* a window one slot too wide
WindowOffByOne(b, size, k) == {(b + i) % k : i \in 0..size}

\* [(b + i) % k for i in range(0, size)]
Window(b, size, k) == {(b + i) % k : i \in 0..(size - 1)}

SeqNums == 0..(K - 1)

\* the outputs of one handler: the packets and acks it passed to
\* channel.udt_send, the timer processes it created, and what rdt_send
\* returned
Event(op, seq, corrupted, ret, sent, acks, started) ==
    [op |-> op, seq |-> seq, corrupted |-> corrupted, ret |-> ret,
     sent |-> sent, acks |-> acks, started |-> started]

\* ------------------------------------------------------------------------
\* Construction: rdt_Sender.__init__ and rdt_Receiver.__init__, with the
\* window size and the modulus scaled down.  K = N is the shape of the
\* defaults of the source (N = 16, K = 16, receiving_window = 16); K = 2N is
\* the smallest modulus Selective Repeat is specified for.  base = 1 needs
\* K >= 2.
\* ------------------------------------------------------------------------
Init ==
    /\ N \in 1..MaxN
    /\ K \in {N, 2 * N} \ {1}
    /\ receiving_window = N
    /\ base = 1
    /\ nextseqnum = 1
    /\ sndpkt = EmptyMap
    /\ acknowledged = EmptyMap
    /\ timers = {}
    /\ total_packets_sent = 0
    /\ num_retransmissions = 0
    /\ r_base = 1
    /\ received_packets = EmptyMap
    /\ r_total_packets_sent = 0
    /\ r_num_retransmissions = 0
    /\ dataCh = {}
    /\ ackCh = {}
    /\ accepted = <<>>
    /\ delivered = <<>>
    /\ hist = [s \in 0..(K - 1) |-> "none"]
    /\ unacked = {}
    /\ advanced = 0
    /\ ev = Event("init", 0, FALSE, FALSE, <<>>, <<>>, {})

\* ------------------------------------------------------------------------
\* Timers
\* ------------------------------------------------------------------------
\* start_timer: a new process only if seq_num has no entry
start_timer(tm, s) == tm \cup {s}

\* a start_timer that replaces the process of an existing entry
TimerRestarted(tm, s) == {s}

\* the seq_nums for which start_timer creates a process
TimerStarted(tm, s) == IF s \in tm THEN {} ELSE {s}

\* a stop_timer that leaves the process of seq_num running
LeaveTimer(tm, s) == tm

\* stop_timer: an entry is never a finished process (timeout_action replaces
\* it inside the expiry step), so the entry is interrupted and deleted
stop_timer(tm, s) == tm \ {s}

\* ------------------------------------------------------------------------
\* rdt_Sender.rdt_send
\* ------------------------------------------------------------------------
MakePacket(s, msg) == [seq |-> s, payload |-> msg]

rdt_send(msg) ==
    IF nextseqnum \in Window(base, N, K)
    THEN /\ Len(accepted) < MaxSubmit
         /\ sndpkt' = MapPut(sndpkt, nextseqnum, msg)
         /\ dataCh' = dataCh \cup {MakePacket(nextseqnum, msg)}
         /\ total_packets_sent' = total_packets_sent + 1
         /\ timers' = start_timer(timers, nextseqnum)
         /\ nextseqnum' = (nextseqnum + 1) % K
         /\ accepted' = Append(accepted, msg)
         /\ hist' = [hist EXCEPT ![nextseqnum] = "sent"]
         /\ unacked' = unacked \cup {nextseqnum}
         /\ ev' = Event("rdt_send", nextseqnum, FALSE, TRUE,
                        <<MakePacket(nextseqnum, msg)>>, <<>>,
                        TimerStarted(timers, nextseqnum))
         /\ UNCHANGED <<config, base, acknowledged, num_retransmissions,
                        receiver, ackCh, delivered, advanced>>
    ELSE /\ ev' = Event("rdt_send", nextseqnum, FALSE, FALSE, <<>>, <<>>, {})
         /\ UNCHANGED <<config, sender, receiver, dataCh, ackCh, accepted,
                        delivered, history>>

\* the sending application numbers its messages
Submit == rdt_send(Len(accepted) + 1)

\* ------------------------------------------------------------------------
\* rdt_Sender.rdt_rcv
\* ------------------------------------------------------------------------
\* an if in place of the while: base moves by one slot at most
SlideOnce(b, ack) ==
    IF b \in DOMAIN ack /\ ack[b]
    THEN [base |-> (b + 1) % K,
          acknowledged |-> [x \in (DOMAIN ack) \ {b} |-> ack[x]],
          passed |-> <<b>>]
    ELSE [base |-> b, acknowledged |-> ack, passed |-> <<>>]

\* while self.base in self.acknowledged and self.acknowledged[self.base]:
\*     del self.acknowledged[self.base]; self.base = (self.base + 1) % self.K
RECURSIVE SlideBase(_, _)
SlideBase(b, ack) ==
    IF b \in DOMAIN ack /\ ack[b]
    THEN LET r == SlideBase((b + 1) % K, MapDel(ack, b))
         IN  [r EXCEPT !.passed = <<b>> \o r.passed]
    ELSE [base |-> b, acknowledged |-> ack, passed |-> <<>>]

\* hist[s] is the fate of the packet most recently accepted with seq_num s:
\* "none" (never submitted), "sent" (no uncorrupted ack processed since the
\* submit), "acked" (one was), "passed" (base moved past it when it was
\* "acked"), "skipped" (base moved past s when it was not "acked").
\* HistAck is hist after an uncorrupted ack for a buffered seq_num a and the
\* slide of base over the seq_nums of passed.
HistAck(h, a, passed) ==
    LET marked == [s \in DOMAIN h |->
                      IF s = a /\ h[s] = "sent" THEN "acked" ELSE h[s]]
    IN  [s \in DOMAIN h |->
            IF \E i \in 1..Len(passed) : passed[i] = s
            THEN (IF marked[s] = "acked" THEN "passed" ELSE "skipped")
            ELSE marked[s]]

\* the handlers trust a packet wholly: every field of one that is corrupted
\* is read as it is
AnyPacketIsGood(corrupted) == TRUE

\* if not packt.corrupted:
NotCorrupted(corrupted) == ~corrupted

sender_rdt_rcv(a, corrupted) ==
    IF NotCorrupted(corrupted) /\ a \in DOMAIN sndpkt
    THEN LET r == SlideBase(base, MapPut(acknowledged, a, TRUE))
         IN  /\ acknowledged' = r.acknowledged
             /\ base' = r.base
             /\ timers' = stop_timer(timers, a)
             /\ hist' = HistAck(hist, a, r.passed)
             /\ unacked' = unacked \ {a}
             /\ advanced' = Min(advanced + Len(r.passed), MaxAdvance)
             /\ ev' = Event("ack_rcv", a, corrupted, FALSE, <<>>, <<>>, {})
             /\ UNCHANGED <<config, nextseqnum, sndpkt, total_packets_sent,
                            num_retransmissions, receiver, dataCh, accepted,
                            delivered>>
    ELSE /\ ev' = Event("ack_rcv", a, corrupted, FALSE, <<>>, <<>>, {})
         /\ UNCHANGED <<config, sender, receiver, dataCh, accepted,
                        delivered, history>>

\* The channel hands an ack to the sender.  With keep the ack stays in
\* flight: the channel may hand it over again (duplication) at any later
\* time (delay, reordering) or never (loss).
AckArrives(keep) ==
    \E a \in ackCh, corrupted \in BOOLEAN :
        /\ ackCh' = (IF keep THEN ackCh ELSE ackCh \ {a})
        /\ sender_rdt_rcv(a, corrupted)

\* ------------------------------------------------------------------------
\* rdt_Sender.timer_behavior after its timeout, and timeout_action
\* ------------------------------------------------------------------------
\* a Go-Back-N habit: the expiry resends the packet at base
RetransmitAtBase(s) ==
    IF base \in DOMAIN sndpkt THEN <<[seq |-> base, payload |-> sndpkt[base]]>>
    ELSE <<[seq |-> s, payload |-> sndpkt[s]]>>

\* the packets timeout_action passes to channel.udt_send
Retransmit(s) == <<MakePacket(s, sndpkt[s])>>

PacketsOf(q) == {q[i] : i \in 1..Len(q)}

\* an entry of timers is always a key of sndpkt (rdt_send stores the packet
\* before start_timer and nothing deletes from sndpkt)
timeout_action(s) ==
    /\ s \in DOMAIN sndpkt
    /\ num_retransmissions < MaxRetrans
    /\ dataCh' = dataCh \cup PacketsOf(Retransmit(s))
    /\ num_retransmissions' = num_retransmissions + Len(Retransmit(s))
    /\ total_packets_sent' = total_packets_sent + Len(Retransmit(s))
    /\ timers' = start_timer(timers \ {s}, s)
    /\ ev' = Event("timeout", s, FALSE, FALSE, Retransmit(s), <<>>,
                   TimerStarted(timers \ {s}, s))
    /\ UNCHANGED <<config, base, nextseqnum, sndpkt, acknowledged, receiver,
                   ackCh, accepted, delivered, history>>

TimerExpires == \E s \in timers : timeout_action(s)

\* ------------------------------------------------------------------------
\* rdt_Receiver.rdt_rcv
\* ------------------------------------------------------------------------
\* a Go-Back-N receiver: a packet that is not the expected one is dropped
BufferOnlyBase(buf, p) ==
    IF p.seq = r_base
    THEN [x \in (DOMAIN buf) \cup {p.seq} |->
             IF x = p.seq THEN p.payload ELSE buf[x]]
    ELSE buf

\* self.received_packets[packt.seq_num] = packt
Buffer(buf, p) == MapPut(buf, p.seq, p.payload)

\* an if in place of the while: one delivery per arrival
DeliverOne(b, buf) ==
    IF b \in DOMAIN buf
    THEN [base |-> (b + 1) % K,
          received_packets |-> [x \in (DOMAIN buf) \ {b} |-> buf[x]],
          out |-> <<buf[b]>>]
    ELSE [base |-> b, received_packets |-> buf, out |-> <<>>]

\* while self.base in self.received_packets:
\*     deliver_data(...payload); del self.received_packets[self.base]
\*     self.base = (self.base + 1) % self.K
RECURSIVE DeliverRun(_, _)
DeliverRun(b, buf) ==
    IF b \in DOMAIN buf
    THEN LET r == DeliverRun((b + 1) % K, MapDel(buf, b))
         IN  [r EXCEPT !.out = <<buf[b]>> \o r.out]
    ELSE [base |-> b, received_packets |-> buf, out |-> <<>>]

\* a cumulative acknowledgement: the receiver names the last packet it
\* delivered in order
CumulativeAck(p) == <<(r_base + K - 1) % K>>

\* the acks the receiver passes to channel.udt_send for the packet p:
\* ack_pkt = Packet(seq_num=packt.seq_num, payload="ACK")
AckFor(p) == <<p.seq>>

receiver_rdt_rcv(p, corrupted) ==
    IF NotCorrupted(corrupted)
    THEN /\ r_total_packets_sent < MaxRcvd
         /\ ackCh' = ackCh \cup PacketsOf(AckFor(p))
         /\ r_total_packets_sent' = r_total_packets_sent + Len(AckFor(p))
         /\ ev' = Event("pkt_rcv", p.seq, corrupted, FALSE, <<>>, AckFor(p), {})
         /\ IF p.seq \in Window(r_base, receiving_window, K)
            THEN LET r == DeliverRun(r_base, Buffer(received_packets, p))
                 IN  /\ received_packets' = r.received_packets
                     /\ r_base' = r.base
                     /\ delivered' = delivered \o r.out
                     /\ UNCHANGED r_num_retransmissions
            ELSE /\ r_num_retransmissions' = r_num_retransmissions + 1
                 /\ UNCHANGED <<r_base, received_packets, delivered>>
         /\ UNCHANGED <<config, sender, accepted, history>>
    ELSE /\ ev' = Event("pkt_rcv", p.seq, corrupted, FALSE, <<>>, <<>>, {})
         /\ UNCHANGED <<config, sender, receiver, ackCh, accepted, delivered,
                        history>>

\* the channel hands a data packet to the receiver
PacketArrives(keep) ==
    \E p \in dataCh, corrupted \in BOOLEAN :
        /\ dataCh' = (IF keep THEN dataCh ELSE dataCh \ {p})
        /\ receiver_rdt_rcv(p, corrupted)

\* ------------------------------------------------------------------------
\* The channel loses a packet or an ack
\* ------------------------------------------------------------------------
LosePacket ==
    \E p \in dataCh :
        /\ dataCh' = dataCh \ {p}
        /\ UNCHANGED <<config, sender, receiver, ackCh, accepted, delivered,
                       history, ev>>

LoseAck ==
    \E a \in ackCh :
        /\ ackCh' = ackCh \ {a}
        /\ UNCHANGED <<config, sender, receiver, dataCh, accepted, delivered,
                       history, ev>>

\* Any channel behaviour: every packet and ack ever sent can arrive any
\* number of times, in any order, corrupted or not, or never.
Next ==
    \/ Submit
    \/ AckArrives(TRUE)
    \/ TimerExpires
    \/ PacketArrives(TRUE)

Spec == Init /\ [][Next]_vars

\* A channel that never duplicates: what was sent arrives at most once, in
\* any order, corrupted or not, or is lost.
LossyNext ==
    \/ Submit
    \/ AckArrives(FALSE)
    \/ TimerExpires
    \/ PacketArrives(FALSE)
    \/ LosePacket
    \/ LoseAck

LossySpec == Init /\ [][LossyNext]_vars

\* ------------------------------------------------------------------------
\* Sanity of the model
\* ------------------------------------------------------------------------
TypeOK ==
    /\ base \in SeqNums /\ nextseqnum \in SeqNums /\ r_base \in SeqNums
    /\ DOMAIN sndpkt \subseteq SeqNums
    /\ DOMAIN acknowledged \subseteq SeqNums
    /\ \A s \in DOMAIN acknowledged : acknowledged[s] = TRUE
    /\ timers \subseteq DOMAIN sndpkt
    /\ DOMAIN received_packets \subseteq SeqNums
    /\ total_packets_sent = Len(accepted) + num_retransmissions

\* ------------------------------------------------------------------------
\* Vocabulary of the properties.  What the claims say of every configuration
\* is checked where a violation cannot be blamed on the configuration: in
\* the runs with K >= 2N.
\* ------------------------------------------------------------------------
\* the seq_nums of [base, nextseqnum) mod K; when nextseqnum = base the range
\* is empty unless the packet at base is still unpassed (a full lap, N = K)
Outstanding ==
    IF nextseqnum = base
    THEN (IF hist[base] \in {"sent", "acked"} THEN SeqNums ELSE {})
    ELSE {(base + i) % K : i \in 0..(((nextseqnum - base + K) % K) - 1)}

\* the i-th accepted payload was sent with seq_num i % K (nextseqnum starts
\* at 1 and only rdt_send moves it)
LastPayload(s) ==
    LET idx == {i \in 1..Len(accepted) : i % K = s}
    IN  accepted[CHOOSE i \in idx : \A j \in idx : j <= i]

IsPrefix(p, q) ==
    /\ Len(p) <= Len(q)
    /\ \A i \in 1..Len(p) : p[i] = q[i]

\* no uncorrupted ack has had an effect on the sender yet
NoAckYet == \A s \in SeqNums : hist[s] \in {"none", "sent"}

\* nothing is pending: no timer runs and the channel is empty
Quiescent == timers = {} /\ dataCh = {} /\ ackCh = {}

\* ------------------------------------------------------------------------
\* C1: with K >= 2N and any channel behaviour, the payloads passed to
\* deliver_data are always a prefix of the payloads rdt_send accepted: none
\* delivered twice, none skipped, in submit order.
\* ------------------------------------------------------------------------
DeliveredIsPrefixOfAccepted ==
    (K >= 2 * N) => IsPrefix(delivered, accepted)

\* ------------------------------------------------------------------------
\* C2: liveness.  Every accepted payload is eventually delivered exactly
\* once and in order, and rdt_send is never rejected forever.  Stated on the
\* states where nothing is pending any more (no timer runs, the channel is
\* empty, so only rdt_send can still be called): there every accepted
\* payload has been delivered in order and the next rdt_send is accepted.
\* ------------------------------------------------------------------------
QuiescentMeansDeliveredAndOpen ==
    (K >= 2 * N /\ Quiescent) =>
        /\ delivered = accepted
        /\ nextseqnum \in {(base + i) % K : i \in 0..(N - 1)}

\* ------------------------------------------------------------------------
\* C3: sender window invariant: (nextseqnum - base) mod K <= N, and
\* nextseqnum is inside the window [base, base+N) mod K or is (base+N) mod K.
\* ------------------------------------------------------------------------
SenderWindowInvariant ==
    (K >= 2 * N) =>
        /\ (nextseqnum - base + K) % K <= N
        /\ nextseqnum \in {(base + i) % K : i \in 0..N}

\* ------------------------------------------------------------------------
\* C4: sender no-gap: base advances past seq_num s only if the packet most
\* recently accepted with s exists and an uncorrupted ack for s was processed
\* after that submit (hist records "skipped" when base passes s otherwise).
\* ------------------------------------------------------------------------
SenderBaseNeverSkips ==
    (K >= 2 * N) => \A s \in SeqNums : hist[s] # "skipped"

\* ------------------------------------------------------------------------
\* C5: an uncorrupted ack whose seq_num is not in [base, nextseqnum) mod K
\* leaves base, nextseqnum, acknowledged, sndpkt and the timers unchanged.
\* ------------------------------------------------------------------------
StaleAckChangesNothing ==
    [][(K >= 2 * N /\ ev'.op = "ack_rcv" /\ ~ev'.corrupted
            /\ ev'.seq \notin Outstanding)
        => UNCHANGED <<base, nextseqnum, acknowledged, sndpkt, timers>>]_vars

\* ------------------------------------------------------------------------
\* C7: a timeout retransmits seq only when seq is buffered, lies in
\* [base, nextseqnum) mod K and is not marked acknowledged.
\* ------------------------------------------------------------------------
TimeoutOnlyForUnacked ==
    [][(K >= 2 * N /\ ev'.op = "timeout" /\ Len(ev'.sent) > 0)
        => /\ ev'.seq \in DOMAIN sndpkt
           /\ ev'.seq \in Outstanding
           /\ ~(ev'.seq \in DOMAIN acknowledged /\ acknowledged[ev'.seq])]_vars

\* ------------------------------------------------------------------------
\* C6: rdt_send returns False, changes no sender state and sends nothing
\* exactly when nextseqnum is not in {(base+i) mod K : 0 <= i < N}; otherwise
\* it returns True, buffers and transmits one packet with nextseqnum and the
\* payload, adds 1 to total_packets_sent, has that packet's timer running
\* and moves nextseqnum to (nextseqnum+1) mod K.  From the initial state
\* with N < K and no acks exactly N submits are accepted; the ack for base
\* then moves base by one and opens the window for the next submit.
\* ------------------------------------------------------------------------
SendContract ==
    /\ [][ev'.op = "rdt_send" =>
            IF nextseqnum \in {(base + i) % K : i \in 0..(N - 1)}
            THEN /\ ev'.ret
                 /\ accepted' = Append(accepted, Len(accepted) + 1)
                 /\ ev'.sent = <<[seq |-> nextseqnum,
                                  payload |-> Len(accepted) + 1]>>
                 /\ ev'.sent[1] \in dataCh'
                 /\ nextseqnum \in DOMAIN sndpkt'
                 /\ sndpkt'[nextseqnum] = Len(accepted) + 1
                 /\ \A t \in DOMAIN sndpkt \ {nextseqnum} :
                        t \in DOMAIN sndpkt' /\ sndpkt'[t] = sndpkt[t]
                 /\ total_packets_sent' = total_packets_sent + 1
                 /\ timers' = timers \cup {nextseqnum}
                 /\ nextseqnum' = (nextseqnum + 1) % K
                 /\ UNCHANGED <<base, acknowledged, num_retransmissions>>
            ELSE /\ ~ev'.ret
                 /\ ev'.sent = <<>>
                 /\ UNCHANGED <<sender, dataCh, accepted>>]_vars
    /\ []((N < K /\ NoAckYet) =>
            /\ Len(accepted) <= N
            /\ base = 1
            /\ (nextseqnum \in {(base + i) % K : i \in 0..(N - 1)})
                   <=> (Len(accepted) < N))
    /\ [][(N < K /\ NoAckYet /\ Len(accepted) = N /\ ev'.op = "ack_rcv"
             /\ ~ev'.corrupted /\ ev'.seq = base)
            => /\ base' = (base + 1) % K
               /\ nextseqnum' \in {(base' + i) % K : i \in 0..(N - 1)}]_vars

\* a submit accepted after the window was full and an ack had freed a slot
SendAcceptedAfterAck ==
    /\ N < K
    /\ ev.op = "rdt_send" /\ ev.ret
    /\ Len(accepted) = N + 1

\* ------------------------------------------------------------------------
\* C8: the expiry of the timer of s sends exactly one packet, the buffered
\* packet of s with the seq_num and the payload rdt_send last transmitted
\* for s; total_packets_sent and num_retransmissions grow by 1 each; a new
\* running timer for s replaces the fired one; nothing else is retransmitted
\* and base and nextseqnum stay.
\* ------------------------------------------------------------------------
TimeoutRetransmitsOnlyThatPacket ==
    [][ev'.op = "timeout" =>
        LET s == ev'.seq
        IN  /\ s \in timers
            /\ ev'.sent = <<[seq |-> s, payload |-> LastPayload(s)]>>
            /\ ev'.sent[1] \in dataCh'
            /\ total_packets_sent' = total_packets_sent + 1
            /\ num_retransmissions' = num_retransmissions + 1
            /\ ev'.started = {s}
            /\ timers' = timers
            /\ UNCHANGED <<base, nextseqnum, sndpkt, acknowledged>>]_vars

\* a timer expired while another packet was outstanding with its own timer
TimeoutAmongSeveral ==
    /\ ev.op = "timeout"
    /\ Cardinality(timers) >= 2
    /\ num_retransmissions = 1

\* ------------------------------------------------------------------------
\* C9: every key of received_packets lies in the receive window
\* {(base+i) mod K : 0 <= i < receiving_window}, and the receiver's base is
\* never a key once a step is complete.
\* ------------------------------------------------------------------------
ReceiveBufferInWindow ==
    /\ DOMAIN received_packets \subseteq
           {(r_base + i) % K : i \in 0..(receiving_window - 1)}
    /\ r_base \notin DOMAIN received_packets

\* a packet waits in the buffer after the receiver has delivered others
BufferedBehindGap ==
    /\ DOMAIN received_packets # {}
    /\ Len(delivered) >= 1

\* ------------------------------------------------------------------------
\* C10: an uncorrupted in-window packet that is not at the receiver's base
\* is buffered, with no delivery and no change of base; the packet at base
\* makes the same step deliver the maximal contiguous run of buffered
\* payloads from base on, in order, remove them and advance base by the
\* number delivered; base moves in no other way.
\* ------------------------------------------------------------------------
OutOfOrderBuffering ==
    [][ev'.op = "pkt_rcv" =>
        LET s == ev'.seq
            n == Len(delivered') - Len(delivered)
            run == {(r_base + i) % K : i \in 0..(n - 1)}
            inWin == s \in {(r_base + i) % K : i \in 0..(receiving_window - 1)}
        IN  IF ev'.corrupted \/ ~inWin
            THEN UNCHANGED <<r_base, received_packets, delivered>>
            ELSE IF s # r_base
            THEN /\ UNCHANGED <<r_base, delivered>>
                 /\ DOMAIN received_packets' = DOMAIN received_packets \cup {s}
                 /\ [seq |-> s, payload |-> received_packets'[s]] \in dataCh
                 /\ \A t \in DOMAIN received_packets \ {s} :
                        received_packets'[t] = received_packets[t]
            ELSE /\ n >= 1
                 /\ IsPrefix(delivered, delivered')
                 /\ [seq |-> s, payload |-> delivered'[Len(delivered) + 1]]
                        \in dataCh
                 /\ \A i \in 1..(n - 1) :
                        /\ (r_base + i) % K \in DOMAIN received_packets
                        /\ delivered'[Len(delivered) + 1 + i]
                               = received_packets[(r_base + i) % K]
                 /\ n < K => (r_base + n) % K \notin DOMAIN received_packets
                 /\ r_base' = (r_base + n) % K
                 /\ DOMAIN received_packets' = DOMAIN received_packets \ run
                 /\ \A t \in DOMAIN received_packets' :
                        received_packets'[t] = received_packets[t]]_vars

\* the packet at base arrived behind a buffered one: two deliveries at once
DeliveredTwoAtOnce ==
    /\ K >= 3
    /\ ev.op = "pkt_rcv" /\ ~ev.corrupted
    /\ r_num_retransmissions = 0
    /\ ev.seq \notin DOMAIN received_packets
    /\ r_base = (ev.seq + 2) % K

\* ------------------------------------------------------------------------
\* C11: a corrupted ack changes no sender state (base, nextseqnum, the
\* packet buffer, the acknowledged marks, the timers, the counters); a
\* corrupted data packet changes no receiver state, sends no ack and
\* delivers nothing.
\* ------------------------------------------------------------------------
CorruptedIsDiscarded ==
    [][ev'.corrupted =>
        /\ ev'.op = "ack_rcv" => UNCHANGED <<sender, dataCh, history>>
        /\ ev'.op = "pkt_rcv" =>
               /\ UNCHANGED <<receiver, ackCh, delivered>>
               /\ ev'.acks = <<>>]_vars

\* a corrupted ack came for a packet whose timer runs, while the receiver
\* held a packet in its buffer
CorruptedAckForRunningTimer ==
    /\ ev.op = "ack_rcv" /\ ev.corrupted
    /\ ev.seq \in timers
    /\ ev.seq \in unacked
    /\ DOMAIN received_packets # {}

\* ------------------------------------------------------------------------
\* C12: for every uncorrupted data packet it processes, in its window or
\* not, the receiver sends exactly one ack, whose seq_num is the seq_num of
\* that packet, and adds 1 to its total_packets_sent.
\* ------------------------------------------------------------------------
AckEveryIntactPacket ==
    [][(ev'.op = "pkt_rcv" /\ ~ev'.corrupted) =>
        /\ \E p \in dataCh : p.seq = ev'.seq
        /\ ev'.acks = <<ev'.seq>>
        /\ ackCh' = ackCh \cup {ev'.seq}
        /\ r_total_packets_sent' = r_total_packets_sent + 1]_vars

\* the receiver acked a packet that lies outside its window (the buffer is
\* not empty and base is not just behind the packet: nothing was delivered)
AckedOutsideWindow ==
    /\ ev.op = "pkt_rcv" /\ ~ev.corrupted
    /\ ev.acks = <<ev.seq>>
    /\ r_num_retransmissions >= 1
    /\ DOMAIN received_packets # {}
    /\ ev.seq \notin {(r_base + i) % K : i \in 0..(receiving_window - 1)}
    /\ ev.seq # (r_base + K - 1) % K

\* the receiver holds the packet p in its buffer; it has delivered p
AlreadyBuffered(p) ==
    p.seq \in DOMAIN received_packets /\ received_packets[p.seq] = p.payload

AlreadyDelivered(p) == \E i \in 1..Len(delivered) : delivered[i] = p.payload

\* ------------------------------------------------------------------------
\* C13: with K >= 2 * receiving_window, a second copy of an uncorrupted
\* data packet that the receiver holds in its buffer or has delivered
\* changes neither the receiver's base, nor the keys of its buffer, nor
\* what was delivered; an uncorrupted packet outside the window is neither
\* buffered nor delivered and adds 1 to the receiver's num_retransmissions.
\* ------------------------------------------------------------------------
DuplicateChangesNothing ==
    [][\A p \in dataCh :
        (K >= 2 * receiving_window /\ receiver_rdt_rcv(p, FALSE)) =>
            /\ (AlreadyBuffered(p) \/ AlreadyDelivered(p)) =>
                   /\ r_base' = r_base
                   /\ DOMAIN received_packets' = DOMAIN received_packets
                   /\ delivered' = delivered
            /\ p.seq \notin {(r_base + i) % K : i \in 0..(receiving_window - 1)}
                   => /\ UNCHANGED <<r_base, received_packets, delivered>>
                      /\ r_num_retransmissions' = r_num_retransmissions + 1]_vars

\* ------------------------------------------------------------------------
\* C14: a configuration with K < 2N or K < 2 * receiving_window is rejected
\* at construction: no sender and receiver exist with such values (so the
\* defaults N = 16, K = 16, receiving_window = 16 are not accepted).
\* ------------------------------------------------------------------------
ConstructedConfigIsValid ==
    /\ K >= 2 * N
    /\ K >= 2 * receiving_window

TimerCancelRace ==
    /\ [][(ev'.op = "ack_rcv" /\ ~ev'.corrupted /\ ev'.seq \in Outstanding)
            => ev'.seq \notin timers']_vars
    /\ [][\A s \in SeqNums :
            (s \notin timers /\ s \in timers')
                => ev'.op = "rdt_send" /\ ev'.ret /\ ev'.seq = s]_vars
    /\ [][ev'.op = "timeout" =>
            /\ ev'.seq \in timers
            /\ Len(ev'.sent) = 1 /\ ev'.sent[1].seq = ev'.seq
            /\ num_retransmissions' = num_retransmissions + 1
            /\ ev'.started = {ev'.seq}
            /\ ev'.seq \in timers']_vars

\* the only packet ever submitted timed out once and was acked afterwards:
\* the ack cancelled the timer that the expiry had started
AckAfterExpiry ==
    /\ Len(accepted) = 1
    /\ num_retransmissions = 1
    /\ ev.op = "ack_rcv" /\ ~ev.corrupted
    /\ hist[ev.seq] = "passed"
    /\ timers = {}

\* ------------------------------------------------------------------------
\* C17: the sender's packet buffer sndpkt holds a record for s only if s is
\* outstanding, i.e. s lies in [base, nextseqnum) mod K: the records are
\* removed when base moves past them.
\* ------------------------------------------------------------------------
SndpktOnlyOutstanding ==
    (K >= 2 * N) => DOMAIN sndpkt \subseteq Outstanding

\* ------------------------------------------------------------------------
\* C18: every key of the sender's acknowledged map is an outstanding
\* seq_num, i.e. lies in [base, nextseqnum) mod K.
\* ------------------------------------------------------------------------
AcknowledgedOnlyOutstanding ==
    (K >= 2 * N) => DOMAIN acknowledged \subseteq Outstanding

\* ------------------------------------------------------------------------
\* C19: s has a running timer (one, the table has one entry for a key)
\* exactly when rdt_send accepted s and no uncorrupted ack for s was
\* processed since that submit, and no timer otherwise; start_timer for an
\* s that has an entry creates no second timer and does not restart the
\* one that runs.
\* ------------------------------------------------------------------------
TimerTable ==
    /\ [](timers = unacked)
    /\ [][(ev'.op = "rdt_send" /\ ev'.ret /\ ev'.seq \in timers)
            => ev'.started = {} /\ timers' = timers]_vars

\* rdt_send reused a seq_num whose earlier packet still had its timer
SubmitWhileTimerRuns ==
    /\ ev.op = "rdt_send" /\ ev.ret
    /\ ev.started = {}
    /\ ev.seq \in timers
    /\ ev.seq \in unacked

\* ------------------------------------------------------------------------
\* C20: with K >= 2N and any channel, the number of times the sender's base
\* advanced is at most the number of payloads delivered, which is at most
\* the number of payloads rdt_send accepted.
\* ------------------------------------------------------------------------
AdvancedDeliveredAccepted ==
    (K >= 2 * N) =>
        /\ advanced <= Len(delivered)
        /\ Len(delivered) <= Len(accepted)
====
